---- MODULE Spec2Model ----
(***************************************************************************)
(* Model of src/src/tts.rs: the punctuation-aware chunker                  *)
(* (split_str_and_include_separator, divide_text_into_chunks), the         *)
(* submit-then-poll render operation (Tts::generate_audio) and the         *)
(* orchestration that joins one render per chunk (create_audio).           *)
(*                                                                         *)
(* A text is a sequence of characters.  A character is a one-element       *)
(* token: "a" stands for any one-byte character that is not a separator,   *)
(* "E" for a character whose UTF-8 encoding takes two bytes (such as the   *)
(* 'ê' and 'ç' of the repository's own test text), "." and "," are the     *)
(* separators.  String::len() counts bytes, so lengths are byte lengths.   *)
(***************************************************************************)
EXTENDS Integers, Sequences, FiniteSets, TLC

VARIABLES text, called, pieces, chunks, ca_pc, render, order, ret

vars == <<text, called, pieces, chunks, ca_pc, render, order, ret>>

(***************************************************************************)
(* Bounds of the model.                                                    *)
(***************************************************************************)
\* segments per input text of the chunker specification
MaxSegs == 2
\* segments per input text of the create_audio specification
MaxAudioSegs == 2
\* status polls one render may issue before the model stops it
MaxPolls == 2

(***************************************************************************)
(* Program constants.                                                      *)
(***************************************************************************)
\* tts.rs:161  `buffer.len() + piece.len() > 200`
MaxChunkLen == 200

Wide == "E"
Separators == {".", ","}

\* Option::None of the separator of a piece
NoSeparator == "none"

(***************************************************************************)
(* Strings                                                                 *)
(***************************************************************************)
\* char::len_utf8, the contribution of one character to String::len()
Utf8Len(character) == IF character = Wide THEN 2 ELSE 1

\* the sum of the byte lengths of the characters s[lo..hi], by halves
RECURSIVE ByteLenRange(_, _, _)
ByteLenRange(s, lo, hi) ==
  IF lo > hi THEN 0
  ELSE IF lo = hi THEN Utf8Len(s[lo])
  ELSE LET mid == (lo + hi) \div 2
       IN ByteLenRange(s, lo, mid) + ByteLenRange(s, mid + 1, hi)

\* String::len(): the length in bytes
ByteLen(s) == ByteLenRange(s, 1, Len(s))

\* str::chars().count(): the length in characters
CharLen(s) == Len(s)

(***************************************************************************)
(* split_str_and_include_separator, tts.rs:129-149                         *)
(***************************************************************************)
Piece(separator, piece) == [separator |-> separator, piece |-> piece]

\* tts.rs:135-141  the body of the loop over the characters: `st` is the
\* pair of the locals `buffer` and `pieces`
SplitStep(st, character) ==
  IF character = "."
    THEN [buffer |-> <<>>, pieces |-> Append(st.pieces, Piece(".", st.buffer))]
  ELSE IF character = ","
    THEN [buffer |-> <<>>, pieces |-> Append(st.pieces, Piece(",", st.buffer))]
  ELSE [buffer |-> Append(st.buffer, character), pieces |-> st.pieces]

\* tts.rs:134  `for character in text.chars()` over t[lo..hi], left to
\* right; the range is cut in halves to keep the evaluation shallow (the
\* test on `left` has TLC evaluate the left half before the right one)
RECURSIVE SplitLoop(_, _, _, _)
SplitLoop(st, t, lo, hi) ==
  IF lo > hi THEN st
  ELSE IF lo = hi THEN SplitStep(st, t[lo])
  ELSE LET mid  == (lo + hi) \div 2
           left == SplitLoop(st, t, lo, mid)
       IN IF left.buffer = <<>>
            THEN SplitLoop(left, t, mid + 1, hi)
            ELSE SplitLoop(left, t, mid + 1, hi)

\* tts.rs:144-146  a variant without the `!buffer.is_empty()` test
SplitFinishAlways(st) == Append(st.pieces, Piece(NoSeparator, st.buffer))

\* tts.rs:144-148  the characters after the last separator, if any
SplitFinish(st) ==
  IF st.buffer # <<>>
    THEN Append(st.pieces, Piece(NoSeparator, st.buffer))
    ELSE st.pieces

split_str_and_include_separator(t) ==
  SplitFinish(SplitLoop([buffer |-> <<>>, pieces |-> <<>>], t, 1, Len(t)))

(***************************************************************************)
(* divide_text_into_chunks, tts.rs:153-178                                 *)
(***************************************************************************)
\* tts.rs:161  a variant with `>=` in place of `>`
ExceedsLimitOrEqual(buffer, p) == ByteLen(buffer) + ByteLen(p.piece) >= MaxChunkLen

\* tts.rs:161  the flush test made before a piece is appended
ExceedsLimit(buffer, p) == ByteLen(buffer) + ByteLen(p.piece) > MaxChunkLen

PushPieceNoSeparator(buffer, p) == buffer \o p.piece

\* tts.rs:165-170  append the piece and, when it has one, its separator
PushPiece(buffer, p) ==
  IF p.separator = NoSeparator
    THEN buffer \o p.piece
    ELSE (buffer \o p.piece) \o <<p.separator>>

RECURSIVE DivideLoop(_, _, _, _)
DivideLoop(ps, i, buffer, acc) ==
  IF i > Len(ps) THEN acc
  ELSE LET flush   == ExceedsLimit(buffer, ps[i])
           acc1    == IF flush THEN Append(acc, buffer) ELSE acc
           buffer1 == IF flush THEN <<>> ELSE buffer
           buffer2 == PushPiece(buffer1, ps[i])
           last    == i = Len(ps) /\ buffer2 # <<>>
       IN DivideLoop(ps, i + 1,
                     IF last THEN <<>> ELSE buffer2,
                     IF last THEN Append(acc1, buffer2) ELSE acc1)

RECURSIVE DivideLoopFlushAfter(_, _, _, _)
DivideLoopFlushAfter(ps, i, buffer, acc) ==
  IF i > Len(ps) THEN Append(acc, buffer)
  ELSE LET flush   == ExceedsLimit(buffer, ps[i])
           acc1    == IF flush THEN Append(acc, buffer) ELSE acc
           buffer1 == IF flush THEN <<>> ELSE buffer
       IN DivideLoopFlushAfter(ps, i + 1, PushPiece(buffer1, ps[i]), acc1)

\* a variant that flushes the buffer once after the loop, empty or not
divide_text_into_chunks_flush_after(t) ==
  DivideLoopFlushAfter(split_str_and_include_separator(t), 1, <<>>, <<>>)

\* the Ok value; the only `?` (tts.rs:168) is on write! to a String, which
\* cannot fail
divide_text_into_chunks(t) ==
  DivideLoop(split_str_and_include_separator(t), 1, <<>>, <<>>)

(***************************************************************************)
(* Input texts                                                             *)
(***************************************************************************)
Rep(character, n) == [k \in 1..n |-> character]

RECURSIVE Flatten(_)
Flatten(ss) == IF ss = <<>> THEN <<>> ELSE Head(ss) \o Flatten(Tail(ss))

\* runs of non-separator characters a segment of an input text is made of
Runs == { Rep("a", n) : n \in {0, 1, 99, 100, 201} }
          \cup { Rep(Wide, n) : n \in {60, 101} }

Endings == { <<>>, <<".">>, <<",">> }

Segments == { r \o e : r \in Runs, e \in Endings }

TextsOf(segs, n) == { Flatten(ss) : ss \in UNION { [1..m -> segs] : m \in 0..n } }

Texts == TextsOf(Segments, MaxSegs)

\* the texts create_audio is called with: the empty text, texts made of
\* 101-byte sentences (one chunk each) and one 201-byte run that has no
\* separator
Sentence == Rep("a", 100) \o <<".">>

AudioTexts == TextsOf({Sentence}, MaxAudioSegs) \cup { Rep("a", 201) }

(***************************************************************************)
(* The remote service: what a request can be answered with                 *)
(***************************************************************************)
JobIds == {"j1", "j2"}
Locations == {"u1", "u2"}
\* Option::None of GetSoundLocationResponse.location
NoLocation == "none"
Statuses == {"Pending", "Done", "Failed"}

\* POST /sounds: the transport fails, the body is not a CreateSoundResponse,
\* or it decodes to an id (tts.rs:53-66)
CreateResponses ==
  { [kind |-> "transport_error", id |-> "none"],
    [kind |-> "undecodable", id |-> "none"] }
    \cup { [kind |-> "decoded", id |-> j] : j \in JobIds }

\* GET /sounds/{id}: the transport fails, the body is not a
\* GetSoundLocationResponse, or it decodes to a status and an optional
\* location (tts.rs:71-87)
PollResponses ==
  { [kind |-> "transport_error", status |-> "none", location |-> NoLocation],
    [kind |-> "undecodable", status |-> "none", location |-> NoLocation] }
    \cup { [kind |-> "decoded", status |-> s, location |-> l] :
             s \in Statuses \ {"Pending"}, l \in Locations \cup {NoLocation} }
    \cup { [kind |-> "decoded", status |-> "Pending", location |-> l] :
             l \in {NoLocation, "u1"} }

NoResponse == [kind |-> "none", status |-> "none", location |-> NoLocation]

(***************************************************************************)
(* Tts::generate_audio, tts.rs:44-110: one render, as the state of its     *)
(* future between two await points                                         *)
(***************************************************************************)
NoError == [kind |-> "none", task |-> 0]
Pending == [tag |-> "none", location |-> NoLocation, error |-> NoError]
Ok(location) == [tag |-> "ok", location |-> location, error |-> NoError]
Err(kind, task) ==
  [tag |-> "err", location |-> NoLocation, error |-> [kind |-> kind, task |-> task]]
Panic(task) ==
  [tag |-> "panic", location |-> NoLocation, error |-> [kind |-> "unwrap", task |-> task]]

\* the future create_audio makes for the chunk at index `task`
NewRender(task, chunk) ==
  [task |-> task, body |-> chunk, pc |-> "created", id |-> "none",
   posts |-> 0, polls |-> 0, sleeps |-> 0, pendings |-> 0,
   polled |-> {}, resp |-> NoResponse, out |-> Pending]

\* tts.rs:45-62  build the body and send the creation request
generate_audio_start(r) ==
  [r EXCEPT !.pc = "await_create", !.posts = @ + 1]

\* tts.rs:71-76  a variant whose status request names one job id kept for
\* all renders instead of the id this render was given
SendPollSharedId(r) ==
  [r EXCEPT !.pc = "await_poll", !.polls = @ + 1, !.polled = @ \cup {"j1"}]

\* tts.rs:71-83  send the status request for the job id of this render
SendPoll(r) ==
  [r EXCEPT !.pc = "await_poll", !.polls = @ + 1, !.polled = @ \cup {r.id}]

\* tts.rs:62-66  a variant that sends the creation request again when the
\* first one failed
generate_audio_on_created_resend(r, resp) ==
  IF resp.kind # "decoded"
    THEN IF r.posts < 2
           THEN [r EXCEPT !.posts = @ + 1]
           ELSE [r EXCEPT !.pc = "done", !.out = Err("SubmissionError", r.task)]
    ELSE SendPoll([r EXCEPT !.id = resp.id])

\* tts.rs:62-83  the creation response arrives
generate_audio_on_created(r, resp) ==
  IF resp.kind # "decoded"
    THEN [r EXCEPT !.pc = "done", !.out = Err("SubmissionError", r.task)]
    ELSE SendPoll([r EXCEPT !.id = resp.id])

\* tts.rs:105-106  a variant that polls again at once, without the delay
generate_audio_on_pending_no_sleep(r) == SendPoll(r)

\* tts.rs:105-106  status "Pending": start the 200ms delay
generate_audio_on_pending(r) ==
  [r EXCEPT !.pc = "sleeping", !.sleeps = @ + 1]

\* tts.rs:83-97  a variant that treats a failed or undecodable status
\* response like "Pending": it sleeps and polls again
generate_audio_on_status_retry(r, resp) ==
  LET r1 == [r EXCEPT !.resp = resp] IN
  IF resp.kind # "decoded"
    THEN generate_audio_on_pending(r1)
  ELSE IF resp.status # "Pending"
    THEN IF resp.location = NoLocation
           THEN [r1 EXCEPT !.pc = "panicked", !.out = Panic(r.task)]
           ELSE [r1 EXCEPT !.pc = "done", !.out = Ok(resp.location)]
  ELSE generate_audio_on_pending([r1 EXCEPT !.pendings = @ + 1])

\* tts.rs:83-108  the status response arrives
generate_audio_on_status(r, resp) ==
  LET r1 == [r EXCEPT !.resp = resp] IN
  IF resp.kind = "transport_error"
    THEN [r1 EXCEPT !.pc = "done", !.out = Err("PollError", r.task)]
  ELSE IF resp.kind = "undecodable"
    THEN [r1 EXCEPT !.pc = "done", !.out = Err("ProtocolError", r.task)]
  ELSE IF resp.status # "Pending"
    THEN IF resp.location = NoLocation
           THEN [r1 EXCEPT !.pc = "panicked", !.out = Panic(r.task)]
           ELSE [r1 EXCEPT !.pc = "done", !.out = Ok(resp.location)]
  ELSE generate_audio_on_pending([r1 EXCEPT !.pendings = @ + 1])

\* tts.rs:106  a variant whose delay never leads to the next poll
generate_audio_stay_asleep(r) == r

\* tts.rs:106 -> 70-83  the delay is over: next iteration of the loop
generate_audio_after_sleep(r) == SendPoll(r)

(***************************************************************************)
(* create_audio, tts.rs:117-126                                            *)
(***************************************************************************)
NoReturn == [tag |-> "none", locations |-> <<>>, error |-> NoError]

\* join_all in the order the renders completed
join_all_completion_order(rs, ord) == [k \in 1..Len(ord) |-> rs[ord[k]].out]

\* tts.rs:122-123  futures::future::join_all: the outputs, by position
join_all(rs, ord) == [i \in 1..Len(rs) |-> rs[i].out]

FirstErr(outs) ==
  CHOOSE i \in 1..Len(outs) :
    /\ outs[i].tag = "err"
    /\ \A j \in 1..(i - 1) : outs[j].tag # "err"

\* a collect that keeps the locations of the renders that succeeded
collect_partial(outs) ==
  [tag |-> "ok",
   locations |-> SelectSeq([i \in 1..Len(outs) |-> outs[i].location],
                           LAMBDA l : l # NoLocation),
   error |-> NoError]

\* tts.rs:124-125  collect::<Result<Vec<_>, _>>(): the first Err in
\* iteration order, otherwise every location
collect(outs) ==
  IF \E i \in 1..Len(outs) : outs[i].tag = "err"
    THEN [tag |-> "err", locations |-> <<>>, error |-> outs[FirstErr(outs)].error]
    ELSE [tag |-> "ok",
          locations |-> [i \in 1..Len(outs) |-> outs[i].location],
          error |-> NoError]

(***************************************************************************)
(* State machine                                                           *)
(***************************************************************************)
InitWith(texts) ==
  /\ text \in texts
  /\ called = {}
  /\ pieces = <<>>
  /\ chunks = <<>>
  /\ ca_pc = "idle"
  /\ render = <<>>
  /\ order = <<>>
  /\ ret = NoReturn

Init == InitWith(AudioTexts)

\* tts.rs:117-122  create_audio is called: chunk the text and make one
\* render future per chunk
CreateAudio ==
  /\ ca_pc = "idle"
  /\ called = {}
  /\ chunks' = divide_text_into_chunks(text)
  /\ render' = [i \in 1..Len(chunks') |-> NewRender(i, chunks'[i])]
  /\ ca_pc' = "joining"
  /\ called' = {"create_audio"}
  /\ UNCHANGED <<text, pieces, order, ret>>

Running(i) == ca_pc = "joining" /\ i \in 1..Len(render)

\* first poll of the future of chunk i
Submit(i) ==
  /\ Running(i)
  /\ render[i].pc = "created"
  /\ render' = [render EXCEPT ![i] = generate_audio_start(@)]
  /\ UNCHANGED <<text, called, pieces, chunks, ca_pc, order, ret>>

Settle(i) ==
  /\ order' = IF render'[i].pc = "done" THEN Append(order, i) ELSE order
  /\ IF render'[i].pc = "panicked"
       THEN /\ ca_pc' = "panicked"
            /\ ret' = [tag |-> "panic", locations |-> <<>>, error |-> render'[i].out.error]
       ELSE UNCHANGED <<ca_pc, ret>>

RecvCreated(i) ==
  /\ Running(i)
  /\ render[i].pc = "await_create"
  /\ \E resp \in CreateResponses :
       render' = [render EXCEPT ![i] = generate_audio_on_created(@, resp)]
  /\ Settle(i)
  /\ UNCHANGED <<text, called, pieces, chunks>>

RecvStatus(i) ==
  /\ Running(i)
  /\ render[i].pc = "await_poll"
  /\ \E resp \in PollResponses :
       render' = [render EXCEPT ![i] = generate_audio_on_status(@, resp)]
  /\ Settle(i)
  /\ UNCHANGED <<text, called, pieces, chunks>>

Wake(i) ==
  /\ Running(i)
  /\ render[i].pc = "sleeping"
  /\ render[i].polls < MaxPolls
  /\ render' = [render EXCEPT ![i] = generate_audio_after_sleep(@)]
  /\ UNCHANGED <<text, called, pieces, chunks, ca_pc, order, ret>>

\* tts.rs:123-125  every future is ready: collect and return
Join ==
  /\ ca_pc = "joining"
  /\ \A i \in 1..Len(render) : render[i].pc = "done"
  /\ ret' = collect(join_all(render, order))
  /\ ca_pc' = "returned"
  /\ UNCHANGED <<text, called, pieces, chunks, render, order>>

Next ==
  \/ CreateAudio
  \/ \E i \in 1..Len(render) : Submit(i)
  \/ \E i \in 1..Len(render) : RecvCreated(i)
  \/ \E i \in 1..Len(render) : RecvStatus(i)
  \/ \E i \in 1..Len(render) : Wake(i)
  \/ Join

Spec == Init /\ [][Next]_vars

(***************************************************************************)
(* create_audio against a remote service that answers every request and    *)
(* resolves every job: a creation request is answered with an id, a status *)
(* request with "Pending" (at most MaxPolls - 1 times per job) or with a   *)
(* status that carries a location.                                         *)
(***************************************************************************)
AnsweredCreateResponses == { resp \in CreateResponses : resp.kind = "decoded" }

ResolvingPollResponses(r) ==
  { resp \in PollResponses :
      /\ resp.kind = "decoded"
      /\ \/ resp.status = "Pending" /\ r.polls < MaxPolls
         \/ resp.status = "Done" /\ resp.location # NoLocation }

RecvCreatedAnswered(i) ==
  /\ Running(i)
  /\ render[i].pc = "await_create"
  /\ \E resp \in AnsweredCreateResponses :
       render' = [render EXCEPT ![i] = generate_audio_on_created(@, resp)]
  /\ Settle(i)
  /\ UNCHANGED <<text, called, pieces, chunks>>

RecvStatusResolving(i) ==
  /\ Running(i)
  /\ render[i].pc = "await_poll"
  /\ \E resp \in ResolvingPollResponses(render[i]) :
       render' = [render EXCEPT ![i] = generate_audio_on_status(@, resp)]
  /\ Settle(i)
  /\ UNCHANGED <<text, called, pieces, chunks>>

NextResolving ==
  \/ CreateAudio
  \/ \E i \in 1..Len(render) : Submit(i)
  \/ \E i \in 1..Len(render) : RecvCreatedAnswered(i)
  \/ \E i \in 1..Len(render) : RecvStatusResolving(i)
  \/ \E i \in 1..Len(render) : Wake(i)
  \/ Join

\* the steps of a create_audio call in progress: the runtime polls the
\* futures joined by join_all while one of them can make a step
Drive ==
  \/ \E i \in 1..Len(render) : Submit(i)
  \/ \E i \in 1..Len(render) : RecvCreatedAnswered(i)
  \/ \E i \in 1..Len(render) : RecvStatusResolving(i)
  \/ \E i \in 1..Len(render) : Wake(i)
  \/ Join

SpecResolving == Init /\ [][NextResolving]_vars /\ WF_vars(Drive)

(***************************************************************************)
(* The chunker on its own: the two functions applied to an input text      *)
(***************************************************************************)
InitChunker == InitWith(Texts)

CallSplit ==
  /\ ca_pc = "idle"
  /\ "split" \notin called
  /\ pieces' = split_str_and_include_separator(text)
  /\ called' = called \cup {"split"}
  /\ UNCHANGED <<text, chunks, ca_pc, render, order, ret>>

CallDivide ==
  /\ ca_pc = "idle"
  /\ "divide" \notin called
  /\ chunks' = divide_text_into_chunks(text)
  /\ called' = called \cup {"divide"}
  /\ UNCHANGED <<text, pieces, ca_pc, render, order, ret>>

NextChunker == CallSplit \/ CallDivide

SpecChunker == InitChunker /\ [][NextChunker]_vars

(***************************************************************************)
(* Properties                                                              *)
(***************************************************************************)
Tasks == 1..Len(render)

Finished == ca_pc \in {"returned", "panicked"}

LastChar(s) == s[Len(s)]

\* C1: whenever create_audio succeeds, the returned list has one location
\* per chunk and its i-th location is the one the render of the i-th chunk
\* resolved from its status response, whatever the order of completion.
C1_OrderPreservation ==
  (ca_pc = "returned" /\ ret.tag = "ok") =>
    /\ Len(ret.locations) = Len(chunks)
    /\ \A i \in 1..Len(chunks) :
         /\ render[i].body = chunks[i]
         /\ ret.locations[i] = render[i].resp.location

\* create_audio succeeded although a later chunk resolved before an
\* earlier one, to a different location
C1_Witness ==
  /\ ca_pc = "returned"
  /\ ret.tag = "ok"
  /\ Len(order) >= 2
  /\ order[1] > order[2]
  /\ render[order[1]].resp.location # render[order[2]].resp.location

\* C2: if the render of at least one chunk fails, create_audio fails and
\* returns no location list, not even the locations of the chunks that
\* succeeded.
C2_AllOrNothing ==
  (\E i \in Tasks : render[i].out.tag \in {"err", "panic"}) =>
    /\ ret.tag # "ok"
    /\ ret.locations = <<>>
    /\ Finished => ret.tag \in {"err", "panic"}

\* create_audio returned while one render had failed and another one had
\* resolved a location
C2_Witness ==
  /\ ca_pc = "returned"
  /\ \E i \in Tasks : render[i].out.tag = "err"
  /\ \E i \in Tasks : render[i].out.tag = "ok"

\* C3: concatenating the chunks of divide_text_into_chunks, in order and
\* with nothing between them, yields exactly the input text.
C3_RoundTrip ==
  ("divide" \in called) => Flatten(chunks) = text

\* a text with both separators was divided into several chunks
C3_Witness ==
  /\ "divide" \in called
  /\ Len(chunks) >= 2
  /\ \E k \in 1..Len(text) : text[k] = "."
  /\ \E k \in 1..Len(text) : text[k] = ","

\* C4: every chunk of divide_text_into_chunks has at most 200 characters,
\* its punctuation included, unless the chunk is one single segment.
C4_LengthRespect ==
  ("divide" \in called) =>
    \A i \in 1..Len(chunks) :
      \/ CharLen(chunks[i]) <= MaxChunkLen
      \/ Len(split_str_and_include_separator(chunks[i])) = 1

\* C5: every chunk but the last ends with the '.' or ',' that ends a
\* segment, and the segments of the chunks are, in order, the segments of
\* the text (no segment is cut by a chunk boundary).
C5_BoundaryPreservation ==
  ("divide" \in called) =>
    /\ \A i \in 1..(Len(chunks) - 1) :
         /\ chunks[i] # <<>>
         /\ LastChar(chunks[i]) \in Separators
    /\ Flatten([i \in 1..Len(chunks) |->
                  split_str_and_include_separator(chunks[i])])
         = split_str_and_include_separator(text)

\* C6: a status response that decodes with a status other than "Pending"
\* and without a location makes the render end with the ProtocolError
\* failure, which it returns to create_audio.
C6_MissingLocationIsProtocolError ==
  \A i \in Tasks :
    ( /\ render[i].resp.kind = "decoded"
      /\ render[i].resp.status # "Pending"
      /\ render[i].resp.location = NoLocation )
    => /\ render[i].pc = "done"
       /\ render[i].out = Err("ProtocolError", i)

\* C7: when the final status reported for a chunk's job is failed, no
\* location is taken from that job and create_audio yields no result set.
C7_FailedVoidsResult ==
  \A i \in Tasks :
    (render[i].resp.kind = "decoded" /\ render[i].resp.status = "Failed")
    => /\ render[i].out.tag # "ok"
       /\ ret.tag # "ok"

\* C8: after each "Pending" status the render sleeps once and then polls
\* the same job again; on the first other status it returns that
\* response's location with no further sleep or poll: k Pending responses
\* and then a location L mean k sleeps, k+1 polls and the result L.
C8_PendingRetry ==
  \A i \in Tasks :
    LET r == render[i] IN
    /\ (r.resp.kind = "decoded" /\ r.resp.status = "Pending")
         => r.pc \in {"sleeping", "await_poll"}
    /\ r.pc = "sleeping"
         => r.resp.status = "Pending" /\ r.sleeps = r.pendings /\ r.polls = r.pendings
    /\ r.pc = "await_poll"
         => r.sleeps = r.pendings /\ r.polls = r.pendings + 1
    /\ r.out.tag = "ok"
         => /\ r.pc = "done"
            /\ r.resp.kind = "decoded" /\ r.resp.status # "Pending"
            /\ r.out.location = r.resp.location
            /\ r.sleeps = r.pendings /\ r.polls = r.pendings + 1
    /\ r.polled \subseteq {r.id}

\* a render returned a location after at least one Pending response
C8_Witness ==
  \E i \in Tasks :
    /\ render[i].out.tag = "ok"
    /\ render[i].pendings >= 1
    /\ render[i].sleeps >= 1

\* C9: for the empty text divide_text_into_chunks returns no chunk,
\* create_audio sends no creation request and no status poll, and returns
\* the empty location list as a success.
C9_EmptyInput ==
  (text = <<>> /\ "create_audio" \in called) =>
    /\ chunks = <<>>
    /\ \A i \in Tasks : render[i].posts = 0 /\ render[i].polls = 0
    /\ render = <<>>
    /\ ca_pc # "panicked"
    /\ ca_pc = "returned" => ret = [tag |-> "ok", locations |-> <<>>, error |-> NoError]

\* create_audio returned for the empty text
C9_Witness ==
  /\ text = <<>>
  /\ ca_pc = "returned"
  /\ ret.tag = "ok"

\* C10: a non-empty text of at most 200 characters, whatever punctuation
\* it has, is returned as exactly one chunk equal to the text.
C10_ShortTextStaysWhole ==
  ("divide" \in called /\ text # <<>> /\ CharLen(text) <= MaxChunkLen)
    => chunks = <<text>>

\* C11: a text made of two sentences, each ending in '.' and shorter than
\* 200 characters, whose lengths sum to more than 200, is divided into
\* exactly two chunks: the first sentence and the second sentence.
C11_TwoSentenceSplit ==
  LET ps == split_str_and_include_separator(text)
      s1 == ps[1].piece \o <<".">>
      s2 == ps[2].piece \o <<".">>
  IN ( /\ "divide" \in called
       /\ Len(ps) = 2
       /\ ps[1].separator = "." /\ ps[2].separator = "."
       /\ CharLen(s1) < MaxChunkLen /\ CharLen(s2) < MaxChunkLen
       /\ CharLen(s1) + CharLen(s2) > MaxChunkLen )
     => chunks = <<s1, s2>>

\* C12: a render polls again only after a status response that decoded
\* with status "Pending"; a transport failure of a poll ends it with
\* PollError and an undecodable status response with ProtocolError, with
\* no sleep and no further poll.
C12_RetriesOnlyOnPending ==
  \A i \in Tasks :
    LET r == render[i] IN
    /\ r.polls <= r.pendings + 1
    /\ r.sleeps <= r.pendings
    /\ r.resp.kind = "transport_error"
         => /\ r.pc = "done"
            /\ r.out = Err("PollError", i)
            /\ r.polls = r.pendings + 1 /\ r.sleeps = r.pendings
    /\ r.resp.kind = "undecodable"
         => /\ r.pc = "done"
            /\ r.out = Err("ProtocolError", i)
            /\ r.polls = r.pendings + 1 /\ r.sleeps = r.pendings

\* after a Pending response, one render met a transport failure and
\* another one an undecodable response
C12_Witness ==
  \E i, j \in Tasks :
    /\ render[i].resp.kind = "transport_error"
    /\ render[i].pendings >= 1
    /\ render[j].resp.kind = "undecodable"

\* C13: the creation request of a chunk is sent exactly once and carries
\* the chunk's text; when it fails (transport or decoding) the render ends
\* with SubmissionError, without sending it again and without any poll.
C13_SubmitOnce ==
  \A i \in Tasks :
    LET r == render[i] IN
    /\ r.body = chunks[i]
    /\ r.posts = IF r.pc = "created" THEN 0 ELSE 1
    /\ (r.pc \notin {"created", "await_create"} /\ r.id = "none")
         => /\ r.pc = "done"
            /\ r.out = Err("SubmissionError", i)
            /\ r.polls = 0 /\ r.polled = {}
    /\ r.out.error.kind = "SubmissionError" => r.id = "none"

\* a render ended with SubmissionError while another one went on to poll
C13_Witness ==
  \E i, j \in Tasks :
    /\ render[i].out = Err("SubmissionError", i)
    /\ render[j].polls >= 1

\* C14: create_audio ends, with success or failure, only after the render
\* of every chunk has terminated: while a sibling of a failed render is
\* still submitting, polling or sleeping, create_audio keeps driving it.
C14_JoinWaitsForAll ==
  /\ Finished => \A i \in Tasks : render[i].pc \in {"done", "panicked"}
  /\ \A i, j \in Tasks :
       ( /\ render[j].out.tag \in {"err", "panic"}
         /\ render[i].pc \in {"created", "await_create", "await_poll", "sleeping"} )
       => ca_pc = "joining"

\* C15: when every request is answered and every job is answered
\* "Pending" only finitely often before a status with a location, then
\* under fair scheduling a call of create_audio eventually returns the
\* full list of locations.
C15_EventualCompletion ==
  (ca_pc = "joining") ~> ( /\ ca_pc = "returned"
                           /\ ret.tag = "ok"
                           /\ Len(ret.locations) = Len(chunks) )

\* create_audio returned the locations of two chunks, each resolved after
\* a Pending response
C15_Witness ==
  /\ ca_pc = "returned"
  /\ ret.tag = "ok"
  /\ Len(ret.locations) >= 2
  /\ \A i \in Tasks : render[i].pendings >= 1

\* C16: a render sends status requests only after its own creation
\* request succeeded, each of them names the job id that creation returned
\* to this render, and the location it returns is the one of a status
\* response to such a request, in every interleaving of the renders.
C16_JobIsolation ==
  \A i \in Tasks :
    LET r == render[i] IN
    /\ r.polls = 0 => r.polled = {}
    /\ r.polls > 0 => r.posts = 1 /\ r.id \in JobIds /\ r.polled = {r.id}
    /\ r.out.tag = "ok"
         => /\ r.polled = {r.id}
            /\ r.resp.kind = "decoded"
            /\ r.out.location = r.resp.location

\* two renders that were given different job ids both returned, the later
\* chunk first, with different locations
C16_Witness ==
  \E i, j \in Tasks :
    /\ i < j
    /\ render[i].id # render[j].id
    /\ render[i].out.tag = "ok" /\ render[j].out.tag = "ok"
    /\ render[i].out.location # render[j].out.location
    /\ order = <<j, i>>

\* the positions of the separators of a text, and the n-th of them
SepPositions(t) == { k \in 1..Len(t) : t[k] \in Separators }

NthSep(t, n) ==
  IF n = 0 THEN 0
  ELSE CHOOSE p \in SepPositions(t) :
         Cardinality({ q \in SepPositions(t) : q <= p }) = n

\* C17: split_str_and_include_separator returns, in text order, one
\* segment per '.' or ',' of the text, tagged with that character and
\* holding the characters since the previous separator, plus one untagged
\* final segment when characters follow the last separator; no segment
\* text holds a separator, only the last segment can be untagged, and the
\* segment texts followed by their separators concatenate to the text.
C17_Segmentation ==
  ("split" \in called) =>
    LET n    == Cardinality(SepPositions(text))
        rest == SubSeq(text, NthSep(text, n) + 1, Len(text))
    IN /\ Len(pieces) = n + (IF rest = <<>> THEN 0 ELSE 1)
       /\ \A k \in 1..n :
            /\ pieces[k].separator = text[NthSep(text, k)]
            /\ pieces[k].piece
                 = SubSeq(text, NthSep(text, k - 1) + 1, NthSep(text, k) - 1)
       /\ rest # <<>> => pieces[n + 1] = Piece(NoSeparator, rest)
       /\ \A k \in 1..Len(pieces) :
            /\ \A c \in 1..Len(pieces[k].piece) :
                 pieces[k].piece[c] \notin Separators
            /\ pieces[k].separator = NoSeparator => k = Len(pieces)
       /\ Flatten([k \in 1..Len(pieces) |-> PushPiece(<<>>, pieces[k])]) = text

\* a text was split into a tagged segment with empty text and an untagged
\* final segment
C17_Witness ==
  /\ "split" \in called
  /\ Len(pieces) >= 2
  /\ \E k \in 1..Len(pieces) :
       pieces[k].piece = <<>> /\ pieces[k].separator \in Separators
  /\ pieces[Len(pieces)].separator = NoSeparator

\* the content of the buffer made of the first m segments of `ps`
BufferOf(ps, m) == Flatten([k \in 1..m |-> PushPiece(<<>>, ps[k])])

Failed(i) == render[i].out.tag \in {"err", "panic"}

\* C19: when the renders of several chunks fail, the failure create_audio
\* ends with is the one of the failing chunk with the lowest index,
\* whatever the order in which the renders failed or completed.
C19_LowestIndexFailure ==
  (Finished /\ \E i \in Tasks : Failed(i)) =>
    LET first == CHOOSE i \in Tasks :
                   Failed(i) /\ \A j \in 1..(i - 1) : ~Failed(j)
    IN /\ ret.tag \in {"err", "panic"}
       /\ ret.error = render[first].out.error

\* C20: no chunk of divide_text_into_chunks is the empty string, so
\* create_audio never sends a creation request with an empty text.
C20_NoEmptyChunk ==
  /\ \A j \in 1..Len(chunks) : chunks[j] # <<>>
  /\ \A i \in Tasks : render[i].posts >= 1 => render[i].body # <<>>

====
